---- MODULE Spec2Model ----
(***************************************************************************)
(* The four networking-sfc Ansible modules (os_sfc_flow_classifier,        *)
(* os_sfc_port_pair, os_sfc_port_pair_group, os_sfc_port_chain) run        *)
(* against one remote store.  A module run is one process: it reads the    *)
(* current object, resolves the references, decides, issues at most one    *)
(* mutating call and ends with exit_json, with fail_json, or with an       *)
(* unhandled Python exception.  Each run is one action; the remote calls   *)
(* it issued are kept, in order, in res.calls.  The store answers every    *)
(* call: a shade.OpenStackCloudException, which main() turns into          *)
(* fail_json, is not part of the model.                                    *)
(*                                                                         *)
(* Values.  A module parameter and an object field are optional: None is   *)
(* <<>> and a set value v is <<v>>.  A dict is a record, a list a          *)
(* sequence.  Keyword arguments (kwargs) are functions from the keys       *)
(* that are present to their raw values.                                   *)
(***************************************************************************)
EXTENDS Naturals, Sequences, FiniteSets, TLC

VARIABLES
    store,   \* the remote store: kind -> set of objects
    phase,   \* "idle": no module process; "done": a run has ended, result at hand
    req,     \* the invocation: [kind, params]
    res,     \* its result: [outcome, changed, calls, msg, object]
    pre,     \* the store as the run found it
    first    \* on an immediate re-run of the same task: the first run's result

vars == <<store, phase, req, res, pre, first>>

\* At most this many objects are created on top of the initial store.
MaxCreated == 1

None == <<>>
Some(v) == <<v>>

EmptyDict == [k \in {} |-> k]

Kinds == {"fc", "pp", "ppg", "pc"}

(***************************************************************************)
(* The remote store (shade's cloud object), an external collaborator.      *)
(* get looks an object up by name or id; create records the fields sent    *)
(* and leaves the others unset; update overwrites the fields sent; delete  *)
(* removes the object.  The id of a named object is derived from its name, *)
(* the id of an unnamed one from the number of unnamed objects.            *)
(***************************************************************************)
FCFields == {"name", "ethertype", "protocol",
             "source_port_range_min", "source_port_range_max",
             "destination_port_range_min", "destination_port_range_max",
             "source_ip_prefix", "destination_ip_prefix",
             "logical_source_port", "logical_destination_port",
             "l7_parameters"}
PPFields == {"name", "ingress", "egress", "service_function_parameters"}
PPGFields == {"name", "port_pairs", "port_pair_group_parameters"}
PCFields == {"name", "port_pair_groups", "flow_classifiers",
             "chain_parameters", "chain_id"}

FieldsOf(kind) ==
    CASE kind = "fc" -> FCFields
      [] kind = "pp" -> PPFields
      [] kind = "ppg" -> PPGFields
      [] kind = "pc" -> PCFields
      [] kind = "port" -> {"name"}

MkObject(kind, id, kwargs) ==
    [k \in FieldsOf(kind) \cup {"id"} |->
        IF k = "id" THEN id
        ELSE IF k \in DOMAIN kwargs THEN Some(kwargs[k]) ELSE None]

Matches(o, name_or_id) == o.id = name_or_id \/ o.name = Some(name_or_id)

\* get_port, get_sfc_X: the object, or None
Get(st, kind, name_or_id) ==
    IF \E o \in st[kind] : Matches(o, name_or_id)
    THEN Some(CHOOSE o \in st[kind] : Matches(o, name_or_id))
    ELSE None

NewId(st, kind, kwargs) ==
    IF "name" \in DOMAIN kwargs
    THEN kwargs["name"] \o "-id"
    ELSE kind \o "-anon-" \o
         ToString(Cardinality({o \in st[kind] : o.name = None}) + 1)

\* create_sfc_X(kwargs)
StoreCreate(st, kind, kwargs) ==
    [st EXCEPT ![kind] = @ \cup {MkObject(kind, NewId(st, kind, kwargs), kwargs)}]

\* update_sfc_X(id, kwargs)
StoreUpdate(st, kind, id, kwargs) ==
    [st EXCEPT ![kind] =
        {IF o.id = id
         THEN [k \in DOMAIN o |->
                  IF k \in DOMAIN kwargs THEN Some(kwargs[k]) ELSE o[k]]
         ELSE o : o \in @}]

\* delete_sfc_X(id)
StoreDelete(st, kind, id) ==
    [st EXCEPT ![kind] = {o \in @ : o.id # id}]

\* The remote calls a run issues, as logged in res.calls
GetCall(kind, name_or_id) ==
    [op |-> "get", kind |-> kind, arg |-> name_or_id, kwargs |-> EmptyDict]
CreateCall(kind, kwargs) ==
    [op |-> "create", kind |-> kind, arg |-> "", kwargs |-> kwargs]
UpdateCall(kind, id, kwargs) ==
    [op |-> "update", kind |-> kind, arg |-> id, kwargs |-> kwargs]
DeleteCall(kind, id) ==
    [op |-> "delete", kind |-> kind, arg |-> id, kwargs |-> EmptyDict]

Mutating == {"create", "update", "delete"}

(***************************************************************************)
(* How a run ends.  A message that quotes a name carries the name without  *)
(* the quotation marks.                                                    *)
(***************************************************************************)
\* module.exit_json(changed=..., ...)
ExitJson(st, changed, calls, object) ==
    [store |-> st, outcome |-> "exit", changed |-> changed, calls |-> calls,
     msg |-> "", object |-> object]

\* module.fail_json(msg=...)
FailJson(st, msg, calls) ==
    [store |-> st, outcome |-> "fail", changed |-> FALSE, calls |-> calls,
     msg |-> msg, object |-> None]

\* an exception main() does not catch (NameError, TypeError, AttributeError)
Raise(st, exc, calls) ==
    [store |-> st, outcome |-> "error", changed |-> FALSE, calls |-> calls,
     msg |-> exc, object |-> None]

(***************************************************************************)
(* The three mutating branches of main(): the call, then exit_json.        *)
(***************************************************************************)
\* x = cloud.create_sfc_X(kwargs); changed = True; exit_json(changed, id, x)
CreateObject(st, calls, kind, kwargs) ==
    LET st2 == StoreCreate(st, kind, kwargs)
    IN ExitJson(st2, TRUE, calls \o <<CreateCall(kind, kwargs)>>,
                Get(st2, kind, NewId(st, kind, kwargs)))

\* Fault: the update is made by deleting the object and creating it anew.
UpdateObjectAsReplace(st, calls, kind, id, kwargs) ==
    LET st2 == StoreCreate(StoreDelete(st, kind, id), kind, kwargs)
    IN ExitJson(st2, TRUE,
                calls \o <<DeleteCall(kind, id), CreateCall(kind, kwargs)>>,
                Get(st2, kind, NewId(st, kind, kwargs)))

\* x = cloud.update_sfc_X(x['id'], kwargs); changed = True; exit_json(...)
UpdateObject(st, calls, kind, id, kwargs) ==
    LET st2 == StoreUpdate(st, kind, id, kwargs)
    IN ExitJson(st2, TRUE, calls \o <<UpdateCall(kind, id, kwargs)>>,
                Get(st2, kind, id))

\* if x: cloud.delete_sfc_X(x['id']); changed = True
\* exit_json(changed=changed)
DeleteObject(st, calls, kind, x) ==
    IF x # None
    THEN ExitJson(StoreDelete(st, kind, x[1].id), TRUE,
                  calls \o <<DeleteCall(kind, x[1].id)>>, None)
    ELSE ExitJson(st, FALSE, calls, None)


(***************************************************************************)
(* os_sfc_flow_classifier                                                  *)
(***************************************************************************)
FCCompareSimple == {"ethertype", "protocol",
                    "source_port_range_min", "source_port_range_max",
                    "destination_port_range_min", "destination_port_range_max",
                    "source_ip_prefix", "destination_ip_prefix",
                    "logical_source_port", "logical_destination_port"}
FCCompareDict == {"l7_parameters"}

FCNeedsUpdate(p, fc, ports) ==
    \/ \E key \in FCCompareSimple :
          /\ p[key] # None
          /\ IF key \in DOMAIN ports
             THEN p[key][1] # ports[key]
             ELSE p[key] # fc[key]
    \/ \E key \in FCCompareDict : p[key] # None /\ p[key] # fc[key]

FCSystemStateChange(p, fc, ports) ==
    IF p.state = "present"
    THEN IF fc = None THEN TRUE ELSE FCNeedsUpdate(p, fc[1], ports)
    ELSE p.state = "absent" /\ fc # None

FCOptionalParameters == {"name", "ethertype", "protocol",
                         "source_port_range_min", "source_port_range_max",
                         "destination_port_range_min",
                         "destination_port_range_max",
                         "source_ip_prefix", "destination_ip_prefix",
                         "l7_parameters"}

\* Fault: the documented default of ethertype is sent when it is not set.
FCComposeArgsWithDefault(p, ports) ==
    LET given == {k \in FCOptionalParameters : p[k] # None}
        resolved == DOMAIN ports \cap
                    {"logical_source_port", "logical_destination_port"}
    IN [k \in given \cup resolved \cup {"ethertype"} |->
           IF k \in resolved THEN ports[k]
           ELSE IF p[k] # None THEN p[k][1] ELSE "IPv4"]

FCComposeArgs(p, ports) ==
    LET given == {k \in FCOptionalParameters : p[k] # None}
        resolved == DOMAIN ports \cap
                    {"logical_source_port", "logical_destination_port"}
    IN [k \in given \cup resolved |->
           IF k \in resolved THEN ports[k] ELSE p[k][1]]

\* _ports_get_ids: [status, ids, calls, msg]
FCPortsGetIds(p, st, fail_on_error) ==
    LET lsp == p.logical_source_port
        ldp == p.logical_destination_port
        src == IF lsp # None THEN Get(st, "port", lsp[1]) ELSE None
        dst == IF ldp # None THEN Get(st, "port", ldp[1]) ELSE None
        c1 == IF lsp # None THEN <<GetCall("port", lsp[1])>> ELSE <<>>
        c2 == IF ldp # None THEN <<GetCall("port", ldp[1])>> ELSE <<>>
        ids1 == IF src # None
                THEN [k \in {"logical_source_port"} |-> src[1].id]
                ELSE EmptyDict
        ids2 == IF dst # None
                THEN [k \in DOMAIN ids1 \cup {"logical_destination_port"} |->
                         IF k = "logical_destination_port"
                         THEN dst[1].id ELSE ids1[k]]
                ELSE ids1
    IN IF lsp # None /\ src = None /\ fail_on_error
       THEN [status |-> "fail", ids |-> EmptyDict, calls |-> c1,
             msg |-> "Specified logical source port was not found."]
       ELSE IF ldp # None /\ dst = None /\ fail_on_error
       THEN [status |-> "fail", ids |-> ids1, calls |-> c1 \o c2,
             msg |-> "Specified logical destination port was not found."]
       ELSE [status |-> "ok", ids |-> ids2, calls |-> c1 \o c2, msg |-> ""]

\* main(), state == 'present'.  _ports_get_ids is called without
\* fail_on_error, whose default here is False.
FCPresent(p, st, fc, c0) ==
    LET r == FCPortsGetIds(p, st, FALSE)
        c1 == c0 \o r.calls
        fc_kwargs == FCComposeArgs(p, r.ids)
    IN IF r.status = "fail" THEN FailJson(st, r.msg, c1)
       ELSE IF fc = None THEN CreateObject(st, c1, "fc", fc_kwargs)
       ELSE IF FCNeedsUpdate(p, fc[1], r.ids)
       THEN UpdateObject(st, c1, "fc", fc[1].id, fc_kwargs)
       ELSE ExitJson(st, FALSE, c1, fc)

\* main(), state == 'absent'
FCAbsent(p, st, fc, c0) == DeleteObject(st, c0, "fc", fc)

\* main(), module.check_mode
FCCheckMode(p, st, fc, c0) ==
    LET r == FCPortsGetIds(p, st, FALSE)
    IN ExitJson(st, FCSystemStateChange(p, fc, r.ids), c0 \o r.calls, None)

FCMain(p, st) ==
    LET fc == IF p.name # None THEN Get(st, "fc", p.name[1]) ELSE None
        c0 == IF p.name # None THEN <<GetCall("fc", p.name[1])>> ELSE <<>>
    IN IF p.check_mode THEN FCCheckMode(p, st, fc, c0)
       ELSE IF p.state = "present" THEN FCPresent(p, st, fc, c0)
       ELSE FCAbsent(p, st, fc, c0)

(***************************************************************************)
(* os_sfc_port_pair                                                        *)
(***************************************************************************)
PPCompareSimple == {"ingress", "egress"}
PPCompareDict == {"service_function_parameters"}

PPNeedsUpdate(p, pp, ports) ==
    \/ \E key \in PPCompareSimple :
          /\ p[key] # None
          /\ IF key \in DOMAIN ports
             THEN p[key][1] # ports[key]
             ELSE p[key] # pp[key]
    \/ \E key \in PPCompareDict : p[key] # None /\ p[key] # pp[key]

PPSystemStateChange(p, pp, ports) ==
    IF p.state = "present"
    THEN IF pp = None THEN TRUE ELSE PPNeedsUpdate(p, pp[1], ports)
    ELSE p.state = "absent" /\ pp # None

PPOptionalParameters == {"name", "ingress", "egress",
                         "service_function_parameters"}

PPComposeArgs(p) ==
    [k \in {o \in PPOptionalParameters : p[o] # None} |-> p[k][1]]

\* _ports_get_ids: [status, ids, calls, msg].  Without fail_on_error a missing
\* ingress or egress reaches 'return port_ids', a name that is not defined.
PPPortsGetIds(p, st, fail_on_error) ==
    LET ingress_port == Get(st, "port", p.ingress[1])
        egress_port == Get(st, "port", p.egress[1])
        c1 == <<GetCall("port", p.ingress[1])>>
        c2 == <<GetCall("port", p.egress[1])>>
        ids1 == IF ingress_port # None
                THEN [k \in {"ingress"} |-> ingress_port[1].id]
                ELSE EmptyDict
        ids2 == IF egress_port # None
                THEN [k \in DOMAIN ids1 \cup {"egress"} |->
                         IF k = "egress" THEN egress_port[1].id ELSE ids1[k]]
                ELSE ids1
    IN IF p.ingress = None
       THEN IF fail_on_error
            THEN [status |-> "fail", ids |-> EmptyDict, calls |-> <<>>,
                  msg |-> "Parameter 'ingress' is required in Sfc Port Pair Create"]
            ELSE [status |-> "error", ids |-> EmptyDict, calls |-> <<>>,
                  msg |-> "NameError"]
       ELSE IF p.egress = None
       THEN IF fail_on_error
            THEN [status |-> "fail", ids |-> EmptyDict, calls |-> <<>>,
                  msg |-> "Parameter 'egress' is required in Sfc Port Pair Create"]
            ELSE [status |-> "error", ids |-> EmptyDict, calls |-> <<>>,
                  msg |-> "NameError"]
       ELSE IF ingress_port = None /\ fail_on_error
       THEN [status |-> "fail", ids |-> EmptyDict, calls |-> c1,
             msg |-> "Specified ingress port was not found."]
       ELSE IF egress_port = None /\ fail_on_error
       THEN [status |-> "fail", ids |-> ids1, calls |-> c1 \o c2,
             msg |-> "Specified egress port was not found."]
       ELSE [status |-> "ok", ids |-> ids2, calls |-> c1 \o c2, msg |-> ""]

\* main(), state == 'present'
PPPresent(p, st, pp, c0) ==
    LET r == PPPortsGetIds(p, st, TRUE)
        c1 == c0 \o r.calls
        pp_kwargs == PPComposeArgs(p)
        create_kwargs == [k \in DOMAIN pp_kwargs \cup {"ingress", "egress"} |->
                             IF k \in {"ingress", "egress"}
                             THEN r.ids[k] ELSE pp_kwargs[k]]
    IN IF r.status = "fail" THEN FailJson(st, r.msg, c1)
       ELSE IF pp = None THEN CreateObject(st, c1, "pp", create_kwargs)
       ELSE IF PPNeedsUpdate(p, pp[1], r.ids)
       THEN UpdateObject(st, c1, "pp", pp[1].id, pp_kwargs)
       ELSE ExitJson(st, FALSE, c1, pp)

\* main(), state == 'absent'
PPAbsent(p, st, pp, c0) == DeleteObject(st, c0, "pp", pp)

\* Fault: check mode is not looked at.
PPCheckModeIgnored(p, st, pp, c0) ==
    IF p.state = "present" THEN PPPresent(p, st, pp, c0)
    ELSE PPAbsent(p, st, pp, c0)

\* main(), module.check_mode
PPCheckMode(p, st, pp, c0) ==
    LET r == PPPortsGetIds(p, st, FALSE)
    IN IF r.status = "error" THEN Raise(st, r.msg, c0 \o r.calls)
       ELSE ExitJson(st, PPSystemStateChange(p, pp, r.ids),
                     c0 \o r.calls, None)

PPMain(p, st) ==
    LET pp == IF p.name # None THEN Get(st, "pp", p.name[1]) ELSE None
        c0 == IF p.name # None THEN <<GetCall("pp", p.name[1])>> ELSE <<>>
    IN IF p.check_mode THEN PPCheckMode(p, st, pp, c0)
       ELSE IF p.state = "present" THEN PPPresent(p, st, pp, c0)
       ELSE PPAbsent(p, st, pp, c0)

(***************************************************************************)
(* Resolution of a list of references, element by element in input order.  *)
(***************************************************************************)
Range(s) == {s[i] : i \in DOMAIN s}

\* index of the first element that does not resolve, 0 if all resolve
FirstMissing(st, kind, names) ==
    LET missing == {i \in DOMAIN names : Get(st, kind, names[i]) = None}
    IN IF missing = {} THEN 0
       ELSE CHOOSE i \in missing : \A j \in missing : i <= j

\* the lookups issued for names[1..n]
Lookups(kind, names, n) == [i \in 1..n |-> GetCall(kind, names[i])]

\* the ids of the elements, all of which resolve
IdsOf(st, kind, names) ==
    [i \in DOMAIN names |-> Get(st, kind, names[i])[1].id]

(***************************************************************************)
(* os_sfc_port_pair_group                                                  *)
(***************************************************************************)
PPGCompareDict == {"port_pair_group_parameters"}

\* "True", "False", or the exception raised: set(None) when either list is None
PPGNeedsUpdate(p, ppg, port_pairs) ==
    IF port_pairs = None \/ ppg.port_pairs = None THEN "TypeError"
    ELSE IF Range(port_pairs[1]) # Range(ppg.port_pairs[1]) THEN "True"
    ELSE IF \E key \in PPGCompareDict : p[key] # None /\ p[key] # ppg[key]
    THEN "True"
    ELSE "False"

PPGSystemStateChange(p, ppg, port_pairs) ==
    IF p.state = "present"
    THEN IF ppg = None THEN "True" ELSE PPGNeedsUpdate(p, ppg[1], port_pairs)
    ELSE IF p.state = "absent" /\ ppg # None THEN "True" ELSE "False"

PPGOptionalParameters == {"name", "port_pair_group_parameters"}

PPGComposeArgs(p, port_pairs) ==
    LET given == {o \in PPGOptionalParameters : p[o] # None}
    IN [k \in given \cup {"port_pairs"} |->
           IF k = "port_pairs" THEN port_pairs ELSE p[k][1]]

\* _port_pairs_get_ids: [status, ids, calls, msg]; ids is None or <<list>>.
\* Without fail_on_error an unresolved port pair reaches pp['id'] with pp None.
PPGPortPairsGetIds(p, st, fail_on_error) ==
    LET names == p.port_pairs[1]
        m == FirstMissing(st, "pp", names)
    IN IF p.port_pairs = None \/ p.port_pairs = Some(<<>>)
       THEN IF fail_on_error
            THEN [status |-> "fail", ids |-> None, calls |-> <<>>,
                  msg |-> "Parameter 'port_pairs' is required in Sfc Port Pair Group Create"]
            ELSE [status |-> "ok", ids |-> None, calls |-> <<>>, msg |-> ""]
       ELSE IF m # 0
       THEN IF fail_on_error
            THEN [status |-> "fail", ids |-> None,
                  calls |-> Lookups("pp", names, m),
                  msg |-> "Specified port pair " \o names[m] \o " was not found."]
            ELSE [status |-> "error", ids |-> None,
                  calls |-> Lookups("pp", names, m), msg |-> "TypeError"]
       ELSE [status |-> "ok", ids |-> Some(IdsOf(st, "pp", names)),
             calls |-> Lookups("pp", names, Len(names)), msg |-> ""]

\* Fault: a missing port_pairs is let through as an empty list.
PPGPresentLenient(p, st, ppg, c0) ==
    LET r == PPGPortPairsGetIds(p, st, FALSE)
        c1 == c0 \o r.calls
        ids == IF r.ids = None THEN <<>> ELSE r.ids[1]
    IN IF r.status = "error" THEN Raise(st, r.msg, c1)
       ELSE IF ppg = None
       THEN CreateObject(st, c1, "ppg", PPGComposeArgs(p, ids))
       ELSE ExitJson(st, FALSE, c1, ppg)

\* main(), state == 'present'.  The update branch calls
\* _compose_port_pair_groups_args, which is not defined, before it reaches
\* the update call (itself written cloud.update_sfc_port_pair).
PPGPresent(p, st, ppg, c0) ==
    LET r == PPGPortPairsGetIds(p, st, TRUE)
        c1 == c0 \o r.calls
    IN IF r.status = "fail" THEN FailJson(st, r.msg, c1)
       ELSE IF ppg = None
       THEN CreateObject(st, c1, "ppg", PPGComposeArgs(p, r.ids[1]))
       ELSE IF PPGNeedsUpdate(p, ppg[1], r.ids) = "True"
       THEN Raise(st, "NameError", c1)
       ELSE ExitJson(st, FALSE, c1, ppg)

\* main(), state == 'absent'
PPGAbsent(p, st, ppg, c0) == DeleteObject(st, c0, "ppg", ppg)

\* main(), module.check_mode
PPGCheckMode(p, st, ppg, c0) ==
    LET r == PPGPortPairsGetIds(p, st, FALSE)
        change == PPGSystemStateChange(p, ppg, r.ids)
    IN IF r.status = "error" THEN Raise(st, r.msg, c0 \o r.calls)
       ELSE IF change \notin {"True", "False"}
       THEN Raise(st, change, c0 \o r.calls)
       ELSE ExitJson(st, change = "True", c0 \o r.calls, None)

PPGMain(p, st) ==
    LET ppg == IF p.name # None THEN Get(st, "ppg", p.name[1]) ELSE None
        c0 == IF p.name # None THEN <<GetCall("ppg", p.name[1])>> ELSE <<>>
    IN IF p.check_mode THEN PPGCheckMode(p, st, ppg, c0)
       ELSE IF p.state = "present" THEN PPGPresent(p, st, ppg, c0)
       ELSE PPGAbsent(p, st, ppg, c0)

(***************************************************************************)
(* os_sfc_port_chain                                                       *)
(***************************************************************************)
PCCompareSimple == {"chain_id"}
PCCompareList == <<"port_pair_groups", "flow_classifiers">>
PCCompareDict == {"chain_parameters"}

\* "True", "False", or the exception raised.  pc_ids is None or <<dict>>.
\* The list loop reads module.param, which AnsibleModule does not have; the
\* dict loop compares against the list left in 'value', never equal to a dict.
PCNeedsUpdate(p, pc, pc_ids) ==
    IF pc_ids = None THEN "AttributeError"
    ELSE IF \E key \in PCCompareSimple : p[key] # None /\ p[key] # pc[key]
    THEN "True"
    ELSE IF \E i \in DOMAIN PCCompareList : p[PCCompareList[i]] # None
    THEN "AttributeError"
    ELSE IF \E key \in PCCompareDict : p[key] # None
    THEN "True"
    ELSE "False"

PCSystemStateChange(p, pc, pc_ids) ==
    IF p.state = "present"
    THEN IF pc = None THEN "True" ELSE PCNeedsUpdate(p, pc[1], pc_ids)
    ELSE IF p.state = "absent" /\ pc # None THEN "True" ELSE "False"

PCOptionalParameters == {"name", "port_pair_groups", "flow_classifiers",
                         "chain_parameters", "chain_id"}

PCComposeArgs(p, pc_ids) ==
    [k \in {o \in PCOptionalParameters : p[o] # None} |->
        IF k \in DOMAIN pc_ids THEN pc_ids[k] ELSE p[k][1]]

\* _port_chains_get_ids: [status, ids, calls, msg]; ids is None or <<dict>>
PCGetIds(p, st, fail_on_error) ==
    LET ppg_names == p.port_pair_groups[1]
        fc_names == p.flow_classifiers[1]
        m1 == FirstMissing(st, "ppg", ppg_names)
        m2 == FirstMissing(st, "fc", fc_names)
        c1 == Lookups("ppg", ppg_names, Len(ppg_names))
        Stop(msg, calls) ==
            IF fail_on_error
            THEN [status |-> "fail", ids |-> None, calls |-> calls, msg |-> msg]
            ELSE [status |-> "ok", ids |-> None, calls |-> calls, msg |-> ""]
    IN IF p.port_pair_groups = None \/ p.port_pair_groups = Some(<<>>)
       THEN Stop("Parameter 'port_pair_groups' is required in Sfc Port Chain Create",
                 <<>>)
       ELSE IF m1 # 0
       THEN Stop("Specified port pair group " \o ppg_names[m1] \o " wat not found.",
                 Lookups("ppg", ppg_names, m1))
       ELSE IF p.flow_classifiers = None \/ p.flow_classifiers = Some(<<>>)
       THEN Stop("Parameter 'flow_classifiers' is required in Sfc Port Chain Create",
                 c1)
       ELSE IF m2 # 0
       THEN Stop("Specified port pair group " \o fc_names[m2] \o " wat not found.",
                 c1 \o Lookups("fc", fc_names, m2))
       ELSE [status |-> "ok",
             ids |-> Some([port_pair_groups |-> IdsOf(st, "ppg", ppg_names),
                           flow_classifiers |-> IdsOf(st, "fc", fc_names)]),
             calls |-> c1 \o Lookups("fc", fc_names, Len(fc_names)),
             msg |-> ""]

\* Fault: the references are resolved before the current object is read.
PCPresentResolveFirst(p, st, pc, c0) ==
    LET r == PCGetIds(p, st, TRUE)
        c1 == r.calls \o c0
        pc_kwargs == PCComposeArgs(p, r.ids[1])
        update == PCNeedsUpdate(p, pc[1], r.ids)
    IN IF r.status = "fail" THEN FailJson(st, r.msg, c1)
       ELSE IF pc = None THEN CreateObject(st, c1, "pc", pc_kwargs)
       ELSE IF update \notin {"True", "False"} THEN Raise(st, update, c1)
       ELSE IF update = "True"
       THEN UpdateObject(st, c1, "pc", pc[1].id, pc_kwargs)
       ELSE ExitJson(st, FALSE, c1, pc)

\* main(), state == 'present'
PCPresent(p, st, pc, c0) ==
    LET r == PCGetIds(p, st, TRUE)
        c1 == c0 \o r.calls
        pc_kwargs == PCComposeArgs(p, r.ids[1])
        update == PCNeedsUpdate(p, pc[1], r.ids)
    IN IF r.status = "fail" THEN FailJson(st, r.msg, c1)
       ELSE IF pc = None THEN CreateObject(st, c1, "pc", pc_kwargs)
       ELSE IF update \notin {"True", "False"} THEN Raise(st, update, c1)
       ELSE IF update = "True"
       THEN UpdateObject(st, c1, "pc", pc[1].id, pc_kwargs)
       ELSE ExitJson(st, FALSE, c1, pc)

\* main(), state == 'absent'
PCAbsent(p, st, pc, c0) == DeleteObject(st, c0, "pc", pc)

\* main(), module.check_mode
PCCheckMode(p, st, pc, c0) ==
    LET r == PCGetIds(p, st, FALSE)
        change == PCSystemStateChange(p, pc, r.ids)
    IN IF change \notin {"True", "False"}
       THEN Raise(st, change, c0 \o r.calls)
       ELSE ExitJson(st, change = "True", c0 \o r.calls, None)

PCMain(p, st) ==
    LET pc == IF p.name # None THEN Get(st, "pc", p.name[1]) ELSE None
        c0 == IF p.name # None THEN <<GetCall("pc", p.name[1])>> ELSE <<>>
    IN IF p.check_mode THEN PCCheckMode(p, st, pc, c0)
       ELSE IF p.state = "present" THEN PCPresent(p, st, pc, c0)
       ELSE PCAbsent(p, st, pc, c0)

(***************************************************************************)
(* The tasks a playbook can hold: the parameters of each module, drawn     *)
(* from small sets.  A parameter that is not listed with a value is left   *)
(* at its default, None.                                                   *)
(***************************************************************************)
States == {"present", "absent"}

\* Tasks that name the object they manage
FCNamed ==
    [name : {Some("fc1")},
     ethertype : {None}, protocol : {None},
     source_port_range_min : {None}, source_port_range_max : {None},
     destination_port_range_min : {None}, destination_port_range_max : {None},
     source_ip_prefix : {None, Some("10.20.0.0/24")},
     destination_ip_prefix : {None, Some("10.22.2.0/24")},
     logical_source_port : {None, Some("port1"), Some("port1-id"), Some("nope")},
     logical_destination_port : {None, Some("nope")},
     l7_parameters : {None, Some([url |-> "/"])},
     state : States, check_mode : BOOLEAN]

PPNamed ==
    [name : {Some("pp1")},
     ingress : {None, Some("port1"), Some("port1-id"), Some("nope")},
     egress : {None, Some("port2-id"), Some("nope")},
     service_function_parameters :
         {None, Some([correlation |-> "mpls"]), Some([correlation |-> "nsh"])},
     state : States, check_mode : BOOLEAN]

PPGNamed ==
    [name : {Some("ppg1")},
     port_pairs : {None, Some(<<>>), Some(<<"pp2">>), Some(<<"pp2", "pp3">>),
                   Some(<<"pp3", "pp2">>), Some(<<"pp2", "pp1">>)},
     port_pair_group_parameters : {None, Some([lb_fields |-> "ip_src"])},
     state : States, check_mode : BOOLEAN]

PCNamed ==
    [name : {Some("pc1")},
     port_pair_groups : {None, Some(<<"ppg2", "ppg3">>),
                         Some(<<"ppg3", "ppg2">>), Some(<<"ppg1">>)},
     flow_classifiers : {None, Some(<<>>), Some(<<"fc2">>), Some(<<"fc1">>)},
     chain_parameters : {None, Some([correlation |-> "mpls"])},
     chain_id : {None, Some("1")},
     state : States, check_mode : BOOLEAN]

\* Tasks that give no name
FCNameless ==
    [name : {None},
     ethertype : {None}, protocol : {None},
     source_port_range_min : {None}, source_port_range_max : {None},
     destination_port_range_min : {None}, destination_port_range_max : {None},
     source_ip_prefix : {Some("10.20.0.0/24")},
     destination_ip_prefix : {None},
     logical_source_port : {None, Some("port1-id")},
     logical_destination_port : {None},
     l7_parameters : {None},
     state : States, check_mode : BOOLEAN]

PPNameless ==
    [name : {None},
     ingress : {None, Some("port1-id"), Some("nope")},
     egress : {Some("port2-id")},
     service_function_parameters : {None},
     state : States, check_mode : BOOLEAN]

PPGNameless ==
    [name : {None},
     port_pairs : {None, Some(<<"pp2">>)},
     port_pair_group_parameters : {None},
     state : States, check_mode : BOOLEAN]

PCNameless ==
    [name : {None},
     port_pair_groups : {Some(<<"ppg2">>), Some(<<"ppg1">>)},
     flow_classifiers : {Some(<<"fc2">>)},
     chain_parameters : {None},
     chain_id : {None},
     state : States, check_mode : BOOLEAN]

FCParams == FCNamed \cup FCNameless
PPParams == PPNamed \cup PPNameless
PPGParams == PPGNamed \cup PPGNameless
PCParams == PCNamed \cup PCNameless

(***************************************************************************)
(* The store a playbook starts from: the two Neutron ports, and the port   *)
(* pairs, port pair groups and flow classifier that earlier runs created   *)
(* and that the tasks above refer to but do not manage.                    *)
(***************************************************************************)
InitStore ==
    [port |-> {MkObject("port", "port1-id", [name |-> "port1"]),
               MkObject("port", "port2-id", [name |-> "port2"])},
     fc |-> {MkObject("fc", "fc2-id",
                      [name |-> "fc2", source_ip_prefix |-> "10.20.0.0/24"])},
     pp |-> {MkObject("pp", "pp2-id",
                      [name |-> "pp2", ingress |-> "port1-id",
                       egress |-> "port2-id"]),
             MkObject("pp", "pp3-id",
                      [name |-> "pp3", ingress |-> "port1-id",
                       egress |-> "port2-id"])},
     ppg |-> {MkObject("ppg", "ppg2-id",
                       [name |-> "ppg2", port_pairs |-> <<"pp2-id">>]),
              MkObject("ppg", "ppg3-id",
                       [name |-> "ppg3", port_pairs |-> <<"pp3-id">>])},
     pc |-> {}]

Objects(st) == st.fc \cup st.pp \cup st.ppg \cup st.pc

NumCreated(st) == Cardinality(Objects(st)) - Cardinality(Objects(InitStore))

NoReq == [kind |-> "none", params |-> EmptyDict]
NoRes == [outcome |-> "none", changed |-> FALSE, calls |-> <<>>, msg |-> "",
          object |-> None]

Init ==
    /\ store = InitStore
    /\ phase = "idle"
    /\ req = NoReq
    /\ res = NoRes
    /\ pre = InitStore
    /\ first = None

\* main() of the module of that kind
Main(kind, p, st) ==
    CASE kind = "fc" -> FCMain(p, st)
      [] kind = "pp" -> PPMain(p, st)
      [] kind = "ppg" -> PPGMain(p, st)
      [] kind = "pc" -> PCMain(p, st)

ResultOf(r) ==
    [outcome |-> r.outcome, changed |-> r.changed, calls |-> r.calls,
     msg |-> r.msg, object |-> r.object]

\* One run of a module, from process start to process end.
Run(kind, p) ==
    LET r == Main(kind, p, store)
    IN /\ NumCreated(r.store) <= MaxCreated
       /\ store' = r.store
       /\ phase' = "done"
       /\ req' = [kind |-> kind, params |-> p]
       /\ res' = ResultOf(r)
       /\ pre' = store

FlowClassifier ==
    /\ phase = "idle"
    /\ \E p \in FCParams : Run("fc", p)
    /\ first' = None

PortPair ==
    /\ phase = "idle"
    /\ \E p \in PPParams : Run("pp", p)
    /\ first' = None

PortPairGroup ==
    /\ phase = "idle"
    /\ \E p \in PPGParams : Run("ppg", p)
    /\ first' = None

PortChain ==
    /\ phase = "idle"
    /\ \E p \in PCParams : Run("pc", p)
    /\ first' = None

\* The playbook is played again: the same task runs a second time, right
\* after the first, against the store the first run left.
Rerun ==
    /\ phase = "done"
    /\ first = None
    /\ ~req.params.check_mode
    /\ Run(req.kind, req.params)
    /\ first' = Some(res)

\* The result is reported and nothing of the run but the store remains.
Report ==
    /\ phase = "done"
    /\ phase' = "idle"
    /\ req' = NoReq
    /\ res' = NoRes
    /\ pre' = store
    /\ first' = None
    /\ UNCHANGED store

Next ==
    \/ FlowClassifier
    \/ PortPair
    \/ PortPairGroup
    \/ PortChain
    \/ Rerun
    \/ Report

Spec == Init /\ [][Next]_vars

(***************************************************************************)
(* Vocabulary of the properties.                                           *)
(***************************************************************************)
Done == phase = "done"

\* a run that is not in check mode, with state=present
RealPresent == Done /\ ~req.params.check_mode /\ req.params.state = "present"

\* positions of the mutating calls in a call log
MutCalls(calls) == {i \in DOMAIN calls : calls[i].op \in Mutating}

\* the object the run's task names, as the store held it when the run began
Current == Get(pre, req.kind, req.params.name[1])

\* a lookup of the task's own object, and a lookup of a referenced resource
IsCurrentRead(c) == c.op = "get" /\ c.kind = req.kind
IsDependencyLookup(c) == c.op = "get" /\ c.kind # req.kind

Given(list) == list # None /\ list # Some(<<>>)

\* some reference the task supplies does not resolve in the store
Unresolved ==
    LET P == req.params
        NoPort(ref) == ref # None /\ Get(pre, "port", ref[1]) = None
        NoneOf(kind, list) ==
            Given(list) /\ FirstMissing(pre, kind, list[1]) # 0
    IN CASE req.kind = "fc" -> \/ NoPort(P.logical_source_port)
                               \/ NoPort(P.logical_destination_port)
         [] req.kind = "pp" -> NoPort(P.ingress) \/ NoPort(P.egress)
         [] req.kind = "ppg" -> NoneOf("pp", P.port_pairs)
         [] req.kind = "pc" -> \/ NoneOf("ppg", P.port_pair_groups)
                               \/ NoneOf("fc", P.flow_classifiers)

\* C1: a named task with state=present whose references resolve, that ran
\* with changed=true and is run again at once, unchanged, ends with
\* changed=false and issues no create, update or delete call.
C1_Idempotent ==
    (/\ Done
     /\ first # None
     /\ req.params.state = "present"
     /\ req.params.name # None
     /\ ~Unresolved
     /\ first[1].outcome = "exit"
     /\ first[1].changed)
    => (res.outcome = "exit" /\ ~res.changed /\ MutCalls(res.calls) = {})

\* C2: a check-mode run issues only get calls and leaves the store as it
\* found it, whatever the module, the target state and the store.
C2_CheckModeReadOnly ==
    (Done /\ req.params.check_mode)
    => (/\ \A i \in DOMAIN res.calls : res.calls[i].op = "get"
        /\ store = pre
        /\ res.outcome \in {"exit", "fail", "error"})

\* C2 witness: a check-mode run that looked resources up and reported that a
\* real run would change the store.
C2_Witness ==
    /\ Done
    /\ req.params.check_mode
    /\ res.outcome = "exit"
    /\ res.changed
    /\ Len(res.calls) >= 2

\* C3: no run issues more than one mutating call.
C3_AtMostOneMutation == Done => Cardinality(MutCalls(res.calls)) <= 1

\* C3 witness: a run that updated an existing object, with one mutating call.
C3_Witness ==
    /\ Done
    /\ Cardinality(MutCalls(res.calls)) = 1
    /\ \E i \in DOMAIN res.calls : res.calls[i].op = "update"

\* C4: no update call carries the name field.
C4_NoNameInUpdate ==
    Done => \A i \in DOMAIN res.calls :
                res.calls[i].op = "update" => "name" \notin DOMAIN res.calls[i].kwargs

\* C5: state=absent for a name the store does not hold ends with
\* changed=false and without a mutating call, in check mode or not.
C5_AbsentOfAbsent ==
    (/\ Done
     /\ req.params.state = "absent"
     /\ req.params.name # None
     /\ Current = None)
    => (res.outcome = "exit" /\ ~res.changed /\ MutCalls(res.calls) = {})

\* the task's reference lists resolve to the sets of ids the current object
\* holds, and no other field it supplies differs from the current object's
C6_SameReferences ==
    LET P == req.params
        cur == Current[1]
        SameSet(kind, list, held) ==
            /\ Given(list)
            /\ FirstMissing(pre, kind, list[1]) = 0
            /\ held # None
            /\ Range(IdsOf(pre, kind, list[1])) = Range(held[1])
        SameOrUnset(key) == P[key] = None \/ P[key] = cur[key]
    IN /\ req.kind \in {"ppg", "pc"}
       /\ P.name # None
       /\ Current # None
       /\ IF req.kind = "ppg"
          THEN /\ SameSet("pp", P.port_pairs, cur.port_pairs)
               /\ SameOrUnset("port_pair_group_parameters")
          ELSE /\ SameSet("ppg", P.port_pair_groups, cur.port_pair_groups)
               /\ SameSet("fc", P.flow_classifiers, cur.flow_classifiers)
               /\ SameOrUnset("chain_parameters")
               /\ SameOrUnset("chain_id")

\* C6: with state=present, a port pair group or port chain whose reference
\* lists resolve to the ids it already holds, in any order, ends with
\* changed=false and without an update call.
C6_ReorderIsNoChange ==
    (Done /\ req.params.state = "present" /\ C6_SameReferences)
    => (/\ res.outcome = "exit"
        /\ ~res.changed
        /\ \A i \in DOMAIN res.calls : res.calls[i].op # "update")

\* C7: a real run with state=present whose task supplies a reference that
\* does not resolve ends in failure and issues no create or update call.
C7_UnresolvedAborts ==
    (RealPresent /\ Unresolved)
    => (res.outcome = "fail" /\ MutCalls(res.calls) = {})

\* a required reference is empty or not supplied
C8_MissingRequired ==
    LET P == req.params
    IN CASE req.kind = "pp" -> P.ingress = None \/ P.egress = None
         [] req.kind = "ppg" -> ~Given(P.port_pairs)
         [] req.kind = "pc" -> \/ ~Given(P.port_pair_groups)
                               \/ ~Given(P.flow_classifiers)
         [] OTHER -> FALSE

C8_RequiredMessages ==
    {"Parameter 'ingress' is required in Sfc Port Pair Create",
     "Parameter 'egress' is required in Sfc Port Pair Create",
     "Parameter 'port_pairs' is required in Sfc Port Pair Group Create",
     "Parameter 'port_pair_groups' is required in Sfc Port Chain Create",
     "Parameter 'flow_classifiers' is required in Sfc Port Chain Create"}

Supplied == {k \in DOMAIN req.params \ {"state", "check_mode"} :
                req.params[k] # None}

\* a flow classifier task that sets the two prefixes and, but for its name,
\* nothing else, for a name the store does not hold
C10_Scenario ==
    /\ RealPresent
    /\ req.kind = "fc"
    /\ Supplied = {"name", "source_ip_prefix", "destination_ip_prefix"}
    /\ Current = None

\* C10 as stated: the scenario ends with changed=true and a create call
\* whose fields are exactly the two prefixes.
C10_CreateExactlyPrefixes ==
    C10_Scenario
    => (/\ res.outcome = "exit"
        /\ res.changed
        /\ \E i \in DOMAIN res.calls :
              /\ res.calls[i].op = "create"
              /\ DOMAIN res.calls[i].kwargs =
                     {"source_ip_prefix", "destination_ip_prefix"})

\* C10 as amended: the create call's fields are exactly the name and the two
\* prefixes, with the values supplied; and no create call of any module
\* carries a field the task left unset.
C10_CreateOnlySupplied ==
    /\ C10_Scenario
       => (/\ res.outcome = "exit"
           /\ res.changed
           /\ \E i \in DOMAIN res.calls :
                 /\ res.calls[i].op = "create"
                 /\ res.calls[i].kwargs =
                        [k \in {"name", "source_ip_prefix",
                                "destination_ip_prefix"} |-> req.params[k][1]])
    /\ Done => \A i \in DOMAIN res.calls :
                  res.calls[i].op = "create"
                  => DOMAIN res.calls[i].kwargs \subseteq Supplied

\* C10 witness: the scenario has run and created the flow classifier.
C10_Witness ==
    /\ C10_Scenario
    /\ \E i \in DOMAIN res.calls : res.calls[i].op = "create"

\* the dict field of the module the run belongs to
DictField ==
    CASE req.kind = "fc" -> "l7_parameters"
      [] req.kind = "pp" -> "service_function_parameters"
      [] req.kind = "ppg" -> "port_pair_group_parameters"
      [] req.kind = "pc" -> "chain_parameters"

\* a run with state=present on an object the store holds, whose task sets
\* the dict field and whose references are all supplied and all resolve
C11_Scenario ==
    /\ Done
    /\ req.params.state = "present"
    /\ req.params.name # None
    /\ Current # None
    /\ req.params[DictField] # None
    /\ ~Unresolved
    /\ ~C8_MissingRequired

\* no field of the task but the dict field differs from the current object:
\* a plain field has the value the object holds, a port is given by the id
\* the object holds, a list resolves to the ids the object holds
C11_OthersAgree ==
    LET P == req.params
        cur == Current[1]
        Agree(keys) == \A key \in keys : P[key] = None \/ P[key] = cur[key]
        ById(keys) ==
            \A key \in keys :
                P[key] # None => Get(pre, "port", P[key][1])[1].id = P[key][1]
    IN CASE req.kind = "fc" ->
              /\ Agree(FCCompareSimple)
              /\ ById({"logical_source_port", "logical_destination_port"})
         [] req.kind = "pp" ->
              Agree(PPCompareSimple) /\ ById(PPCompareSimple)
         [] OTHER -> C6_SameReferences

\* C11: with the object existing and state=present, a supplied dict field
\* that differs from the current object's value of that field makes the run
\* report changed=true and, in a real run, send an update that carries the
\* new dict; a supplied dict equal to the current value, with nothing else
\* differing, brings neither changed=true nor an update.
C11_DictCompared ==
    C11_Scenario
    => LET k == DictField
           new == req.params[k]
       IN IF new # Current[1][k]
          THEN /\ res.outcome = "exit"
               /\ res.changed
               /\ ~req.params.check_mode
                  => \E i \in DOMAIN res.calls :
                        /\ res.calls[i].op = "update"
                        /\ k \in DOMAIN res.calls[i].kwargs
                        /\ res.calls[i].kwargs[k] = new[1]
          ELSE C11_OthersAgree
               => /\ ~res.changed
                  /\ \A i \in DOMAIN res.calls : res.calls[i].op # "update"

\* the reference fields of the module the run belongs to, which an update
\* carries in resolved form whether they differ or not
DependencyFields ==
    CASE req.kind = "fc" -> {"logical_source_port", "logical_destination_port"}
      [] req.kind = "pp" -> {"ingress", "egress"}
      [] req.kind = "ppg" -> {"port_pairs"}
      [] req.kind = "pc" -> {"port_pair_groups", "flow_classifiers"}

\* C12: in a real run that updates an existing object, every field of the
\* update call that is not a reference field is a field the task sets to a
\* value other than the one the current object holds.
C12_OnlyDifferences ==
    (RealPresent /\ req.params.name # None /\ Current # None)
    => \A i \in DOMAIN res.calls :
          res.calls[i].op = "update"
          => \A k \in DOMAIN res.calls[i].kwargs \ DependencyFields :
                req.params[k] # Current[1][k]

\* C13: a check-mode run whose task supplies a reference that does not
\* resolve, or leaves a required reference out, ends with exit_json and
\* its changed verdict, never with fail_json or an uncaught exception.
C13_CheckModeDegrades ==
    (Done /\ req.params.check_mode /\ (Unresolved \/ C8_MissingRequired))
    => res.outcome = "exit"

\* some field the task sets differs from the value the current object holds:
\* a port or a list of references is compared by the ids it resolves to,
\* a list as a set
C14_Differs ==
    LET P == req.params
        cur == Current[1]
        Plain(keys) == \E key \in keys : P[key] # None /\ P[key] # cur[key]
        Port(keys) ==
            \E key \in keys :
                /\ P[key] # None
                /\ Some(Get(pre, "port", P[key][1])[1].id) # cur[key]
        List(kind, key) ==
            \/ cur[key] = None
            \/ Range(IdsOf(pre, kind, P[key][1])) # Range(cur[key][1])
    IN CASE req.kind = "fc" ->
              \/ Plain(FCCompareSimple \ DependencyFields)
              \/ Port(DependencyFields)
              \/ Plain(FCCompareDict)
         [] req.kind = "pp" -> Port(PPCompareSimple) \/ Plain(PPCompareDict)
         [] req.kind = "ppg" ->
              List("pp", "port_pairs") \/ Plain(PPGCompareDict)
         [] req.kind = "pc" ->
              \/ Plain(PCCompareSimple)
              \/ List("ppg", "port_pair_groups")
              \/ List("fc", "flow_classifiers")
              \/ Plain(PCCompareDict)

\* a real run with state=present on an object the store holds, whose
\* references are all supplied and resolve, and that differs from the task
C14_Scenario ==
    /\ RealPresent
    /\ req.params.name # None
    /\ Current # None
    /\ ~Unresolved
    /\ ~C8_MissingRequired
    /\ C14_Differs

\* C14: such a run issues exactly one update call, of its own resource kind
\* and keyed by the current object's id, and ends with changed=true and the
\* object as updated.
C14_OneUpdate ==
    C14_Scenario
    => LET updates == {i \in DOMAIN res.calls : res.calls[i].op = "update"}
       IN /\ Cardinality(updates) = 1
          /\ \A i \in updates : /\ res.calls[i].kind = req.kind
                                /\ res.calls[i].arg = Current[1].id
          /\ res.outcome = "exit"
          /\ res.changed
          /\ res.object = Get(store, req.kind, Current[1].id)

\* the run's task played in check mode against the store the run began from
DryRun == Main(req.kind, [req.params EXCEPT !.check_mode = TRUE], pre)

\* C15: when a real run ends with exit_json, the same task in check mode
\* against the same store ends with exit_json too and reports the same
\* changed value.
C15_DryRunAgrees ==
    (Done /\ ~req.params.check_mode /\ res.outcome = "exit")
    => (DryRun.outcome = "exit" /\ DryRun.changed = res.changed)

\* C16: a run whose task gives no name never looks its own kind of object
\* up; with state=present, not in check mode and with its references
\* supplied and resolving, it issues a create call and ends with
\* changed=true; with state=absent it issues no delete call and ends with
\* changed=false.
C16_NoNameIsAbsent ==
    (Done /\ req.params.name = None)
    => /\ \A i \in DOMAIN res.calls : ~IsCurrentRead(res.calls[i])
       /\ (RealPresent /\ ~Unresolved /\ ~C8_MissingRequired)
          => /\ res.outcome = "exit"
             /\ res.changed
             /\ \E i \in DOMAIN res.calls :
                   res.calls[i].op = "create" /\ res.calls[i].kind = req.kind
       /\ req.params.state = "absent"
          => /\ res.outcome = "exit"
             /\ ~res.changed
             /\ \A i \in DOMAIN res.calls : res.calls[i].op # "delete"

====
